---- MODULE Spec2Model ----
(***************************************************************************)
(* A model of src/src/sprite.rs: the Sprite scene-graph node, its children *)
(* index, its frame-set animation and its recursive draw.                  *)
(*                                                                         *)
(* Sprites live in a pool indexed by id (the Uuid of the source).  A       *)
(* sprite owned by a parent is an element of the parent's children list;   *)
(* a sprite owned by the caller is a root of the pool.  Vec indices are    *)
(* 0-based as in the source; the TLA+ sequence holding a Vec is read at    *)
(* index + 1.  Times and lengths are integers; an anchor is counted in     *)
(* halves (1 is the source's 0.5) and rectangles have even sizes, so that  *)
(* anchor * size is exact.                                                 *)
(***************************************************************************)
EXTENDS Integers, Sequences, FiniteSets, TLC

\* ---------------------------------------------------------------- bounds
\* Sprites constructed by the caller (the pool of ids).
NumSprites == 4
\* Largest count handed to add_frameset_horizontal.
MaxCount == 3
\* Largest dt handed to update.
MaxDt == 3
\* Property-setter calls explored in a drawing scenario.
MaxSets == 2
\* The expiry counter saturates here.
MaxExpired == 3

Ids == 1..NumSprites
\* The sprites the drawing scenarios configure and draw.
DrawnIds == {1, 2, 3}
\* The sprite the animation scenarios drive.
AnimIds == {1}

\* ------------------------------------------------------------ Option, Vec, HashMap
None == <<>>
Some(x) == <<x>>
IsSome(o) == o # None
Unwrap(o) == o[1]

\* Vec index (0-based)
VecGet(v, i) == v[i + 1]
\* Mutant: Vec::swap_remove(i), which moves the last element into the hole.
VecSwapRemove(v, i) ==
    [k \in 1..(Len(v) - 1) |-> IF k = i + 1 THEN v[Len(v)] ELSE v[k]]

\* Vec::remove(i): the elements after i shift down by one
VecRemove(v, i) ==
    [k \in 1..(Len(v) - 1) |-> IF k <= i THEN v[k] ELSE v[k + 1]]

EmptyMap == <<>>
ContainsKey(m, k) == k \in DOMAIN m
MapInsert(m, k, v) == [x \in (DOMAIN m) \cup {k} |-> IF x = k THEN v ELSE m[x]]
MapRemove(m, k) == [x \in (DOMAIN m) \ {k} |-> m[x]]

\* ------------------------------------------------------------ input domains
\* The texture every sprite is built from: (width, height) of get_size().
TexSize == <<4, 2>>
FullTexture == <<0, 0, TexSize[1], TexSize[2]>>
\* Source rectangles handed to set_src_rect and the frame-set operations.
Rects == {<<2, 0, 2, 2>>, <<0, 0, 4, 2>>}
BaseRects == {<<2, 0, 2, 2>>}
Names == {"A", "B"}
\* "X" is a name no add_frameset call registers.
PlayNames == Names \cup {"X"}
FrameTimes == {2}
White == <<10, 10, 10>>
Colors == {White, <<10, 0, 0>>}
Tints == {<<0, 10, 0>>}
Opacities == {10, 5}
Positions == {<<0, 0>>, <<3, 1>>}
Rotations == {0, 90}
Scales == {<<1, 1>>, <<2, 3>>}
Anchors == {<<1, 1>>, <<0, 2>>}
\* Frame lists handed to add_frameset.
FrameLists == {<<>>, << <<0, 0, 4, 2>>, <<2, 0, 2, 2>> >>}
\* Transforms handed to draw and draw_tinted.
Transforms == {<<<<2, 0, 1>>, <<0, 1, 0>>>>}

VARIABLES
    sprites,    \* id -> the Sprite struct with that id
    last,       \* the latest public call: [op, recv, arg]
    ret,        \* what the latest call returned
    b,          \* the quads the latest call submitted to its renderer
    fault,      \* "none", or the panic that ended the program
    nset,       \* property-setter calls so far
    expired,    \* id -> frame-time expiries since the latest play on it
    played      \* id -> the latest public play call on it

vars == <<sprites, last, ret, b, fault, nset, expired, played>>

\* ------------------------------------------------------------ construction
from_texture(id) ==
    [ id |-> id,
      visible |-> TRUE,
      anchor |-> <<1, 1>>,
      position |-> <<0, 0>>,
      rotation |-> 0,
      scale |-> <<1, 1>>,
      color |-> White,
      flip_x |-> FALSE,
      flip_y |-> FALSE,
      opacity |-> 10,
      src_rect |-> None,
      frames |-> None,
      frames_followup |-> None,
      frame_idx |-> 0,
      frame_delta |-> 0,
      frame_sets |-> EmptyMap,
      children |-> <<>>,
      children_index |-> EmptyMap ]

\* A record of a public call.  at: what the call met.  For a lookup or a
\* removal, where the requested id stood before the call ("direct": in the
\* receiver's own index, "deep": further down, "absent"); for an update, the
\* branch it took at the last frame; "" otherwise.
Call(op, recv, arg, at) == [op |-> op, recv |-> recv, arg |-> arg, at |-> at]

Init ==
    /\ sprites = [i \in Ids |-> from_texture(i)]
    /\ last = Call("new", 0, <<>>, "")
    /\ ret = None
    /\ b = <<>>
    /\ fault = "none"
    /\ nset = 0
    /\ expired = [i \in Ids |-> 0]
    /\ played = [i \in Ids |-> None]

\* ------------------------------------------------------------ ownership
Range(v) == {v[k] : k \in 1..Len(v)}
ChildSet(S, n) == Range(S[n].children)
IsRoot(S, s) == \A p \in Ids : s \notin ChildSet(S, p)

RECURSIVE Descendants(_, _)
Descendants(S, n) ==
    ChildSet(S, n) \cup UNION {Descendants(S, c) : c \in ChildSet(S, n)}

At(S, n, id) ==
    IF ContainsKey(S[n].children_index, id) THEN "direct"
    ELSE IF id \in Descendants(S, n) THEN "deep" ELSE "absent"

\* ------------------------------------------------------------ children index
\* The outcome of a call that may panic: the pool, the return value, the fault.
Outcome(S, r, f) == [S |-> S, ret |-> r, fault |-> f]

add_child(S, p, s) ==
    LET children == Append(S[p].children, s)
    IN [S EXCEPT ![p].children = children,
                 ![p].children_index = MapInsert(@, s, Len(children) - 1)]

\* Mutant: the reindexing loop is left out.
ReindexSkipped(children, index, i) == index

\* for i in index..self.children.len() { children_index.insert(children[i].id(), i) }
RECURSIVE Reindex(_, _, _)
Reindex(children, index, i) ==
    IF i >= Len(children) THEN index
    ELSE Reindex(children, MapInsert(index, VecGet(children, i), i), i + 1)

RECURSIVE remove_child(_, _, _)
RECURSIVE RemoveInChildren(_, _, _, _)
remove_child(S, n, id) ==
    IF ContainsKey(S[n].children_index, id)
    THEN LET index == S[n].children_index[id]
             index1 == MapRemove(S[n].children_index, id)
         IN IF index >= Len(S[n].children)
            THEN Outcome([S EXCEPT ![n].children_index = index1], None,
                         "removal index out of bounds")
            ELSE LET removed == VecGet(S[n].children, index)
                     children == VecRemove(S[n].children, index)
                 IN Outcome([S EXCEPT ![n].children = children,
                                      ![n].children_index =
                                          Reindex(children, index1, index)],
                            Some(removed), "none")
    ELSE RemoveInChildren(S, n, id, 0)
\* Mutant: the recursive result is unwrapped instead of tested.
RemoveInChildrenUnwrap(S, n, id, k) ==
    IF k >= Len(S[n].children) THEN Outcome(S, None, "none")
    ELSE LET r == remove_child(S, VecGet(S[n].children, k), id)
         IN IF IsSome(r.ret) THEN r
            ELSE Outcome(r.S, None, "called Option::unwrap() on a None value")

\* for child in &mut self.children { if let Some(c) = child.remove_child(id) { return Some(c) } }
RemoveInChildren(S, n, id, k) ==
    IF k >= Len(S[n].children) THEN Outcome(S, None, "none")
    ELSE LET r == remove_child(S, VecGet(S[n].children, k), id)
         IN IF IsSome(r.ret) \/ r.fault # "none" THEN r
            ELSE RemoveInChildren(r.S, n, id, k + 1)

RECURSIVE child(_, _, _)
RECURSIVE ChildInChildren(_, _, _, _)
child(S, n, id) ==
    IF ContainsKey(S[n].children_index, id)
    THEN LET index == S[n].children_index[id]
         IN IF index >= Len(S[n].children)
            THEN Outcome(S, None, "index out of bounds")
            ELSE Outcome(S, Some(VecGet(S[n].children, index)), "none")
    ELSE ChildInChildren(S, n, id, 0)
\* Mutant: the loop returns what the first child answers, found or not.
ChildInFirstOnly(S, n, id, k) ==
    IF k >= Len(S[n].children) THEN Outcome(S, None, "none")
    ELSE child(S, VecGet(S[n].children, k), id)

\* for child in &self.children { if let Some(c) = child.child(id) { return Some(c) } }
ChildInChildren(S, n, id, k) ==
    IF k >= Len(S[n].children) THEN Outcome(S, None, "none")
    ELSE LET r == child(S, VecGet(S[n].children, k), id)
         IN IF IsSome(r.ret) \/ r.fault # "none" THEN r
            ELSE ChildInChildren(S, n, id, k + 1)

\* child_mut is child with mutable borrows: the same two-tier lookup.
RECURSIVE child_mut(_, _, _)
RECURSIVE ChildMutInChildren(_, _, _, _)
child_mut(S, n, id) ==
    IF ContainsKey(S[n].children_index, id)
    THEN LET index == S[n].children_index[id]
         IN IF index >= Len(S[n].children)
            THEN Outcome(S, None, "index out of bounds")
            ELSE Outcome(S, Some(VecGet(S[n].children, index)), "none")
    ELSE ChildMutInChildren(S, n, id, 0)
\* for child in &mut self.children { if let Some(c) = child.child_mut(id) { return Some(c) } }
ChildMutInChildren(S, n, id, k) ==
    IF k >= Len(S[n].children) THEN Outcome(S, None, "none")
    ELSE LET r == child_mut(S, VecGet(S[n].children, k), id)
         IN IF IsSome(r.ret) \/ r.fault # "none" THEN r
            ELSE ChildMutInChildren(r.S, n, id, k + 1)

\* ------------------------------------------------------------ animation
\* usize::MAX, what 0 - 1 wraps to when overflow checks are off.  It stands
\* for 2^64 - 1 by the largest integer TLC holds: above every index.
USizeMax == 2147483647
WrappingSub(a, c) == IF a >= c THEN a - c ELSE USizeMax - (c - a) + 1

FrameSet(repeat, frame_time, source) ==
    [repeat |-> repeat, frame_time |-> frame_time, source |-> source]

\* The outcome of a call on one sprite s: the sprite after it, and the fault.
Step(s, f) == [s |-> s, fault |-> f]

\* Mutant: a registered name restarts the clip at frame 0 with no time elapsed.
PlayRestarts(s, name, followup) ==
    LET s1 == IF ContainsKey(s.frame_sets, name)
              THEN [s EXCEPT !.frames = Some(s.frame_sets[name]),
                             !.frame_idx = 0,
                             !.frame_delta = 0]
              ELSE s
    IN [s1 EXCEPT !.frames_followup = followup]

\* Mutant: an unregistered name returns before the followup is stored.
PlayReturnsEarly(s, name, followup) ==
    IF ContainsKey(s.frame_sets, name)
    THEN [s EXCEPT !.frames = Some(s.frame_sets[name]),
                   !.frames_followup = followup]
    ELSE s

play(s, name, followup) ==
    LET s1 == IF ContainsKey(s.frame_sets, name)
              THEN [s EXCEPT !.frames = Some(s.frame_sets[name])]
              ELSE s
    IN [s1 EXCEPT !.frames_followup = followup]

\* self.frame_delta > frame.frame_time
Expires(s, dt) ==
    /\ IsSome(s.frames)
    /\ s.frame_delta + dt > Unwrap(s.frames).frame_time

\* Mutant: the repeat test comes first and the followup is its else branch.
AtLastFrameRepeatOnly(s, frame) ==
    IF frame.repeat THEN [s EXCEPT !.frame_idx = 0]
    ELSE IF IsSome(s.frames_followup)
         THEN play([s EXCEPT !.frame_idx = 0], Unwrap(s.frames_followup), None)
         ELSE s

\* The body of `if self.frame_idx == frame.source.len() - 1 { ... }` with the
\* chained play.  last_idx is the value of frame.source.len() - 1.
AtLastFrame(s, frame) ==
    LET s1 == IF IsSome(s.frames_followup) THEN [s EXCEPT !.frame_idx = 0] ELSE s
        s2 == IF frame.repeat THEN [s1 EXCEPT !.frame_idx = 0] ELSE s1
    IN IF IsSome(s.frames_followup)
       THEN play(s2, Unwrap(s.frames_followup), None)
       ELSE s2

\* Mutant: an else branch moves frame_idx on by one before the last frame.
UpdateAdvances(s, dt, overflow_checks) ==
    IF ~IsSome(s.frames) THEN Step(s, "none")
    ELSE LET frame == Unwrap(s.frames)
             s1 == [s EXCEPT !.frame_delta = s.frame_delta + dt]
         IN IF s1.frame_delta > frame.frame_time
            THEN LET s2 == [s1 EXCEPT !.frame_delta = 0]
                 IN IF Len(frame.source) = 0 /\ overflow_checks
                    THEN Step(s2, "attempt to subtract with overflow")
                    ELSE IF s2.frame_idx = WrappingSub(Len(frame.source), 1)
                         THEN Step(AtLastFrame(s2, frame), "none")
                         ELSE Step([s2 EXCEPT !.frame_idx = s2.frame_idx + 1],
                                   "none")
            ELSE Step(s1, "none")

\* Mutant: frame_delta is accumulated before the test for an active frame set.
UpdateCountsIdle(s, dt, overflow_checks) ==
    IF ~IsSome(s.frames)
    THEN Step([s EXCEPT !.frame_delta = s.frame_delta + dt], "none")
    ELSE LET frame == Unwrap(s.frames)
             s1 == [s EXCEPT !.frame_delta = s.frame_delta + dt]
         IN IF s1.frame_delta > frame.frame_time
            THEN LET s2 == [s1 EXCEPT !.frame_delta = 0]
                 IN IF Len(frame.source) = 0 /\ overflow_checks
                    THEN Step(s2, "attempt to subtract with overflow")
                    ELSE IF s2.frame_idx = WrappingSub(Len(frame.source), 1)
                         THEN Step(AtLastFrame(s2, frame), "none")
                         ELSE Step(s2, "none")
            ELSE Step(s1, "none")

\* overflow_checks: whether the build panics on integer overflow (a debug
\* build does, a release build wraps).
update(s, dt, overflow_checks) ==
    IF ~IsSome(s.frames) THEN Step(s, "none")
    ELSE LET frame == Unwrap(s.frames)
             s1 == [s EXCEPT !.frame_delta = s.frame_delta + dt]
         IN IF s1.frame_delta > frame.frame_time
            THEN LET s2 == [s1 EXCEPT !.frame_delta = 0]
                 IN IF Len(frame.source) = 0 /\ overflow_checks
                    THEN Step(s2, "attempt to subtract with overflow")
                    ELSE IF s2.frame_idx = WrappingSub(Len(frame.source), 1)
                         THEN Step(AtLastFrame(s2, frame), "none")
                         ELSE Step(s2, "none")
            ELSE Step(s1, "none")

\* Mutant: the contains_key test is left out, so a later registration wins.
AddFramesetOverwrites(s, name, repeat, frame_time, source) ==
    [s EXCEPT !.frame_sets =
         MapInsert(@, name, FrameSet(repeat, frame_time, source))]

add_frameset(s, name, repeat, frame_time, source) ==
    IF ~ContainsKey(s.frame_sets, name)
    THEN [s EXCEPT !.frame_sets =
              MapInsert(@, name, FrameSet(repeat, frame_time, source))]
    ELSE s

\* for i in 0..count { srcs.push([i * source[2], source[1], source[2], source[3]]) }
HorizontalFrames(source, count) ==
    [k \in 1..count |-> <<(k - 1) * source[3], source[2], source[3], source[4]>>]

add_frameset_horizontal(s, name, repeat, frame_time, source, count) ==
    add_frameset(s, name, repeat, frame_time, HorizontalFrames(source, count))

\* ------------------------------------------------------------ geometry
\* graphics::math, on 2x3 matrices with integer entries; rotations are whole
\* quarter turns, whose sine and cosine are exact.
Multiply(m, k) ==
    << << m[1][1] * k[1][1] + m[1][2] * k[2][1],
          m[1][1] * k[1][2] + m[1][2] * k[2][2],
          m[1][1] * k[1][3] + m[1][2] * k[2][3] + m[1][3] >>,
       << m[2][1] * k[1][1] + m[2][2] * k[2][1],
          m[2][1] * k[1][2] + m[2][2] * k[2][2],
          m[2][1] * k[1][3] + m[2][2] * k[2][3] + m[2][3] >> >>
Cos(deg) == CASE deg = 0 -> 1 [] deg = 90 -> 0 [] deg = 180 -> -1 [] deg = 270 -> 0
Sin(deg) == CASE deg = 0 -> 0 [] deg = 90 -> 1 [] deg = 180 -> 0 [] deg = 270 -> -1
Trans(m, x, y) == Multiply(m, <<<<1, 0, x>>, <<0, 1, y>>>>)
RotDeg(m, deg) == Multiply(m, <<<<Cos(deg), -Sin(deg), 0>>, <<Sin(deg), Cos(deg), 0>>>>)
Scale(m, sx, sy) == Multiply(m, <<<<sx, 0, 0>>, <<0, sy, 0>>>>)
FlipH(m) == Multiply(m, <<<<-1, 0, 0>>, <<0, 1, 0>>>>)
FlipV(m) == Multiply(m, <<<<1, 0, 0>>, <<0, -1, 0>>>>)
\* anchor * size, the anchor counted in halves
Times(anchor, size) == (anchor * size) \div 2

\* frame.source[self.frame_idx] would be out of bounds
FrameOutOfBounds(s) ==
    /\ IsSome(s.frames)
    /\ s.frame_idx >= Len(Unwrap(s.frames).source)

source_rectangle(s) ==
    IF IsSome(s.frames) THEN VecGet(Unwrap(s.frames).source, s.frame_idx)
    ELSE IF IsSome(s.src_rect) THEN Unwrap(s.src_rect)
    ELSE FullTexture

\* t.trans(position).rot_deg(rotation).scale(scale)
Transformed(s, t) ==
    Scale(RotDeg(Trans(t, s.position[1], s.position[2]), s.rotation),
          s.scale[1], s.scale[2])

\* model: transformed, with the flips of this sprite
Model(s, t) ==
    LET sr == source_rectangle(s)
        ax == Times(s.anchor[1], sr[3])
        ay == Times(s.anchor[2], sr[4])
        m0 == Transformed(s, t)
        m1 == IF s.flip_x THEN FlipH(Trans(m0, sr[3] - 2 * ax, 0)) ELSE m0
    IN IF s.flip_y THEN FlipV(Trans(m1, 0, sr[4] - 2 * ay)) ELSE m1

\* The Image handed to the renderer: its color, its rectangle, its source
\* rectangle and the transform it is drawn under (sprite: who submitted it).
Quad(s, color, m) ==
    LET sr == source_rectangle(s)
    IN [ sprite |-> s.id,
         color |-> color,
         rect |-> << -Times(s.anchor[1], sr[3]), -Times(s.anchor[2], sr[4]),
                     sr[3], sr[4] >>,
         src_rect |-> s.src_rect,
         transform |-> m ]

\* Mutant: the visibility test is left out.
HiddenNever(s) == FALSE

\* if !self.visible { return; }
Hidden(s) == ~s.visible

\* .color([self.color[0], self.color[1], self.color[2], self.opacity])
OwnColor(s) == <<s.color[1], s.color[2], s.color[3], s.opacity>>
\* Mutant: the tint override is dropped for the sprite's own color.
TintColorOwn(s, c) == <<s.color[1], s.color[2], s.color[3], s.opacity>>

\* .color([c[0], c[1], c[2], self.opacity])
TintColor(s, c) == <<c[1], c[2], c[3], s.opacity>>

\* Mutant: the children are drawn under this sprite's flipped transform.
ChildTransformFlipped(transformed, model) == model

\* child.draw(transformed, b): what a child is drawn under
ChildTransform(transformed, model) == transformed

\* What a draw submitted before it returned or panicked.
Drawn(quads, f) == [quads |-> quads, fault |-> f]

RECURSIVE draw(_, _, _)
RECURSIVE DrawChildren(_, _, _, _, _)
draw(S, n, t) ==
    IF Hidden(S[n]) THEN Drawn(<<>>, "none")
    ELSE IF FrameOutOfBounds(S[n]) THEN Drawn(<<>>, "index out of bounds")
    ELSE DrawChildren(S, n,
                      ChildTransform(Transformed(S[n], t), Model(S[n], t)), 0,
                      <<Quad(S[n], OwnColor(S[n]), Model(S[n], t))>>)
\* for child in &self.children { child.draw(transformed, b); }
DrawChildren(S, n, t, k, quads) ==
    IF k >= Len(S[n].children) THEN Drawn(quads, "none")
    ELSE LET r == draw(S, VecGet(S[n].children, k), t)
         IN IF r.fault # "none" THEN Drawn(quads \o r.quads, r.fault)
            ELSE DrawChildren(S, n, t, k + 1, quads \o r.quads)

RECURSIVE draw_tinted(_, _, _, _)
RECURSIVE DrawTintedChildren(_, _, _, _, _, _)
draw_tinted(S, n, t, c) ==
    IF Hidden(S[n]) THEN Drawn(<<>>, "none")
    ELSE IF FrameOutOfBounds(S[n]) THEN Drawn(<<>>, "index out of bounds")
    ELSE DrawTintedChildren(S, n,
                            ChildTransform(Transformed(S[n], t), Model(S[n], t)),
                            c, 0,
                            <<Quad(S[n], TintColor(S[n], c), Model(S[n], t))>>)
\* for child in &self.children { child.draw_tinted(transformed, b, c); }
DrawTintedChildren(S, n, t, c, k, quads) ==
    IF k >= Len(S[n].children) THEN Drawn(quads, "none")
    ELSE LET r == draw_tinted(S, VecGet(S[n].children, k), t, c)
         IN IF r.fault # "none" THEN Drawn(quads \o r.quads, r.fault)
            ELSE DrawTintedChildren(S, n, t, c, k + 1, quads \o r.quads)

bounding_box(s) ==
    LET sr == source_rectangle(s)
        sprite_w == sr[3] * s.scale[1]
        sprite_h == sr[4] * s.scale[2]
    IN << s.position[1] - Times(s.anchor[1], sprite_w),
          s.position[2] - Times(s.anchor[2], sprite_h),
          sprite_w, sprite_h >>

\* ------------------------------------------------------------ tree actions
Running == fault = "none"
NoDraw == b' = <<>>
AnimGhostUnchanged == UNCHANGED <<expired, played>>

\* The caller owns s (a root) and borrows p from another tree.
AddChild(p, s) ==
    /\ Running
    /\ IsRoot(sprites, s)
    /\ p # s
    /\ p \notin Descendants(sprites, s)
    /\ sprites' = add_child(sprites, p, s)
    /\ last' = Call("add_child", p, <<s>>, "")
    /\ ret' = Some(s)
    /\ NoDraw
    /\ UNCHANGED <<fault, nset>>
    /\ AnimGhostUnchanged

RemoveChild(n, id) ==
    /\ Running
    /\ LET r == remove_child(sprites, n, id)
       IN /\ sprites' = r.S
          /\ ret' = r.ret
          /\ fault' = r.fault
    /\ last' = Call("remove_child", n, <<id>>, At(sprites, n, id))
    /\ NoDraw
    /\ UNCHANGED nset
    /\ AnimGhostUnchanged

Child(n, id) ==
    /\ Running
    /\ LET r == child(sprites, n, id)
       IN /\ sprites' = r.S
          /\ ret' = r.ret
          /\ fault' = r.fault
    /\ last' = Call("child", n, <<id>>, At(sprites, n, id))
    /\ NoDraw
    /\ UNCHANGED nset
    /\ AnimGhostUnchanged

ChildMut(n, id) ==
    /\ Running
    /\ LET r == child_mut(sprites, n, id)
       IN /\ sprites' = r.S
          /\ ret' = r.ret
          /\ fault' = r.fault
    /\ last' = Call("child_mut", n, <<id>>, At(sprites, n, id))
    /\ NoDraw
    /\ UNCHANGED nset
    /\ AnimGhostUnchanged

NextTree ==
    \/ \E p \in Ids, s \in Ids : AddChild(p, s)
    \/ \E n \in Ids, id \in Ids : RemoveChild(n, id)
    \/ \E n \in Ids, id \in Ids : Child(n, id)
    \/ \E n \in Ids, id \in Ids : ChildMut(n, id)

SpecTree == Init /\ [][NextTree]_vars

\* ------------------------------------------------------------ animation actions
Min(x, y) == IF x <= y THEN x ELSE y

AddFrameset(n, name, repeat, frame_time, source) ==
    /\ Running
    /\ sprites' = [sprites EXCEPT
                      ![n] = add_frameset(@, name, repeat, frame_time, source)]
    /\ last' = Call("add_frameset", n, <<name>>, "")
    /\ ret' = None
    /\ NoDraw
    /\ UNCHANGED <<fault, nset, expired, played>>

AddFramesetHorizontal(n, name, repeat, frame_time, source, count) ==
    /\ Running
    /\ sprites' = [sprites EXCEPT
                      ![n] = add_frameset_horizontal(@, name, repeat, frame_time,
                                                     source, count)]
    /\ last' = Call("add_frameset_horizontal", n, <<name, source, count>>, "")
    /\ ret' = None
    /\ NoDraw
    /\ UNCHANGED <<fault, nset, expired, played>>

PlayCall(n, name, followup) ==
    /\ Running
    /\ sprites' = [sprites EXCEPT ![n] = play(@, name, followup)]
    /\ last' = Call("play", n, <<name, followup>>, "")
    /\ ret' = None
    /\ NoDraw
    /\ UNCHANGED <<fault, nset>>

\* The branch update(dt) takes on sprite s: the frame time expires on the last
\* frame with a followup stored (under a repeating clip or not), or "".
Branch(s, dt) ==
    IF /\ Expires(s, dt)
       /\ Len(Unwrap(s.frames).source) >= 1
       /\ s.frame_idx = Len(Unwrap(s.frames).source) - 1
       /\ IsSome(s.frames_followup)
    THEN IF Unwrap(s.frames).repeat THEN "repeat and followup" ELSE "followup"
    ELSE ""

UpdateCall(n, dt, overflow_checks) ==
    /\ Running
    /\ LET r == update(sprites[n], dt, overflow_checks)
       IN /\ sprites' = [sprites EXCEPT ![n] = r.s]
          /\ fault' = r.fault
    /\ last' = Call("update", n, <<dt>>, Branch(sprites[n], dt))
    /\ ret' = None
    /\ NoDraw
    /\ UNCHANGED nset

Play(n, name, followup) ==
    /\ PlayCall(n, name, followup)
    /\ UNCHANGED <<expired, played>>

Update(n, dt, overflow_checks) ==
    /\ UpdateCall(n, dt, overflow_checks)
    /\ UNCHANGED <<expired, played>>

\* The same calls with their history kept: what the latest play was asked
\* (registered: its name and its followup were both registered then;
\* frame_idx: the index it found), and the frame times expired since.
PlayTracked(n, name, followup) ==
    /\ PlayCall(n, name, followup)
    /\ played' = [played EXCEPT ![n] =
                     Some([name |-> name, followup |-> followup,
                           registered |->
                               /\ ContainsKey(sprites[n].frame_sets, name)
                               /\ \A x \in Range(followup) :
                                      ContainsKey(sprites[n].frame_sets, x),
                           frame_idx |-> sprites[n].frame_idx])]
    /\ expired' = [expired EXCEPT ![n] = 0]

UpdateTracked(n, dt, overflow_checks) ==
    /\ UpdateCall(n, dt, overflow_checks)
    /\ expired' = [expired EXCEPT ![n] =
                      IF Expires(sprites[n], dt) THEN Min(@ + 1, MaxExpired) ELSE @]
    /\ UNCHANGED played

\* ------------------------------------------------------------ draw actions
Draw(n, t) ==
    /\ Running
    /\ LET r == draw(sprites, n, t)
       IN /\ b' = r.quads
          /\ fault' = r.fault
    /\ last' = Call("draw", n, <<t>>, "")
    /\ ret' = None
    /\ UNCHANGED <<sprites, nset, expired, played>>

DrawTinted(n, t, c) ==
    /\ Running
    /\ LET r == draw_tinted(sprites, n, t, c)
       IN /\ b' = r.quads
          /\ fault' = r.fault
    /\ last' = Call("draw_tinted", n, <<t, c>>, "")
    /\ ret' = None
    /\ UNCHANGED <<sprites, nset, expired, played>>

BoundingBox(n) ==
    /\ Running
    /\ IF FrameOutOfBounds(sprites[n])
       THEN ret' = None /\ fault' = "index out of bounds"
       ELSE ret' = Some(bounding_box(sprites[n])) /\ fault' = "none"
    /\ last' = Call("bounding_box", n, <<>>, "")
    /\ NoDraw
    /\ UNCHANGED <<sprites, nset, expired, played>>

\* ------------------------------------------------------------ property setters
set_visible(s, visible) == [s EXCEPT !.visible = visible]
set_anchor(s, anchor) == [s EXCEPT !.anchor = anchor]
set_position(s, position) == [s EXCEPT !.position = position]
set_color(s, color) == [s EXCEPT !.color = color]
set_rotation(s, deg) == [s EXCEPT !.rotation = deg]
set_scale(s, scale) == [s EXCEPT !.scale = scale]
set_flip_x(s, flip_x) == [s EXCEPT !.flip_x = flip_x]
set_flip_y(s, flip_y) == [s EXCEPT !.flip_y = flip_y]
set_opacity(s, opacity) == [s EXCEPT !.opacity = opacity]
set_src_rect(s, src_rect) == [s EXCEPT !.src_rect = Some(src_rect)]

\* A setter call on sprite n that leaves it as sprite s1.
Set(op, n, s1) ==
    /\ Running
    /\ nset < MaxSets
    /\ nset' = nset + 1
    /\ sprites' = [sprites EXCEPT ![n] = s1]
    /\ last' = Call(op, n, <<>>, "")
    /\ ret' = None
    /\ NoDraw
    /\ UNCHANGED <<fault, expired, played>>

SetVisible(n, visible) == Set("set_visible", n, set_visible(sprites[n], visible))
SetAnchor(n, anchor) == Set("set_anchor", n, set_anchor(sprites[n], anchor))
SetPosition(n, position) == Set("set_position", n, set_position(sprites[n], position))
SetColor(n, color) == Set("set_color", n, set_color(sprites[n], color))
SetRotation(n, deg) == Set("set_rotation", n, set_rotation(sprites[n], deg))
SetScale(n, scale) == Set("set_scale", n, set_scale(sprites[n], scale))
SetFlipX(n, flip_x) == Set("set_flip_x", n, set_flip_x(sprites[n], flip_x))
SetFlipY(n, flip_y) == Set("set_flip_y", n, set_flip_y(sprites[n], flip_y))
SetOpacity(n, opacity) == Set("set_opacity", n, set_opacity(sprites[n], opacity))
SetSrcRect(n, src_rect) == Set("set_src_rect", n, set_src_rect(sprites[n], src_rect))

\* ------------------------------------------------------------ specifications
NextAnim ==
    \/ \E n \in AnimIds, name \in Names, repeat \in BOOLEAN,
          frame_time \in FrameTimes, source \in FrameLists :
           AddFrameset(n, name, repeat, frame_time, source)
    \/ \E n \in AnimIds, name \in Names, repeat \in BOOLEAN,
          frame_time \in FrameTimes, source \in BaseRects, count \in 0..MaxCount :
           AddFramesetHorizontal(n, name, repeat, frame_time, source, count)
    \/ \E n \in AnimIds, name \in PlayNames,
          followup \in {None} \cup {Some(x) : x \in PlayNames} :
           Play(n, name, followup)
    \/ \E n \in AnimIds, dt \in 0..MaxDt, overflow_checks \in BOOLEAN :
           Update(n, dt, overflow_checks)
    \/ \E n \in AnimIds, t \in Transforms : Draw(n, t)
    \/ \E n \in AnimIds, t \in Transforms, c \in Tints : DrawTinted(n, t, c)
    \/ \E n \in AnimIds : BoundingBox(n)

SpecAnim == Init /\ [][NextAnim]_vars

\* The animation calls alone, with the history of the latest play kept.
NextChain ==
    \/ \E n \in AnimIds, name \in Names, repeat \in BOOLEAN,
          frame_time \in FrameTimes, source \in BaseRects, count \in 0..MaxCount :
           AddFramesetHorizontal(n, name, repeat, frame_time, source, count)
    \/ \E n \in AnimIds, name \in PlayNames,
          followup \in {None} \cup {Some(x) : x \in PlayNames} :
           PlayTracked(n, name, followup)
    \/ \E n \in AnimIds, dt \in 0..MaxDt, overflow_checks \in BOOLEAN :
           UpdateTracked(n, dt, overflow_checks)

SpecChain == Init /\ [][NextChain]_vars

NextDraw ==
    \/ \E p \in DrawnIds, s \in DrawnIds : AddChild(p, s)
    \/ \E n \in DrawnIds, visible \in BOOLEAN : SetVisible(n, visible)
    \/ \E n \in DrawnIds, anchor \in Anchors : SetAnchor(n, anchor)
    \/ \E n \in DrawnIds, position \in Positions : SetPosition(n, position)
    \/ \E n \in DrawnIds, color \in Colors : SetColor(n, color)
    \/ \E n \in DrawnIds, deg \in Rotations : SetRotation(n, deg)
    \/ \E n \in DrawnIds, scale \in Scales : SetScale(n, scale)
    \/ \E n \in DrawnIds, flip_x \in BOOLEAN : SetFlipX(n, flip_x)
    \/ \E n \in DrawnIds, flip_y \in BOOLEAN : SetFlipY(n, flip_y)
    \/ \E n \in DrawnIds, opacity \in Opacities : SetOpacity(n, opacity)
    \/ \E n \in DrawnIds, src_rect \in Rects : SetSrcRect(n, src_rect)
    \/ \E n \in DrawnIds, t \in Transforms : Draw(n, t)
    \/ \E n \in DrawnIds, t \in Transforms, c \in Tints : DrawTinted(n, t, c)

SpecDraw == Init /\ [][NextDraw]_vars

\* ------------------------------------------------------------ claims: children index
\* The sprites that hold sprite id in their children list (none for a root).
Parents(S, id) == {p \in Ids : id \in ChildSet(S, p)}
Without(v, id) == SelectSeq(v, LAMBDA x : x # id)

\* C1: in every sprite the index map is the exact inverse of the children
\* list: each entry (id, index) has index < children.len() and
\* children[index].id() = id, and the keys are exactly the children's ids,
\* each child standing at one position only.
C1_IndexInverse ==
    \A n \in Ids :
        LET children == sprites[n].children
            index == sprites[n].children_index
        IN /\ \A id \in DOMAIN index :
                  /\ index[id] >= 0
                  /\ index[id] < Len(children)
                  /\ sprites[VecGet(children, index[id])].id = id
           /\ DOMAIN index = {sprites[c].id : c \in Range(children)}
           /\ Cardinality(DOMAIN index) = Len(children)

\* A direct removal has left a parent with at least two children behind.
C1_Witness ==
    /\ last.op = "remove_child"
    /\ last.at = "direct"
    /\ IsSome(ret)
    /\ Len(sprites[last.recv].children) >= 2

\* C2: remove_child(id) with id anywhere below the receiver returns that
\* sprite with its subtree untouched, takes it out of its parent's list with
\* the other siblings kept in order, and changes no other sprite.
C2_RemovalStep ==
    (last'.op = "remove_child"
        /\ last'.arg[1] \in Descendants(sprites, last'.recv))
    => LET id == last'.arg[1]
       IN /\ ret' = Some(id)
          /\ fault' = "none"
          /\ \A p \in Parents(sprites, id) :
                 /\ sprites'[p].children = Without(sprites[p].children, id)
                 /\ Len(sprites'[p].children) = Len(sprites[p].children) - 1
          /\ \A m \in Ids \ Parents(sprites, id) : sprites'[m] = sprites[m]
          /\ Parents(sprites', id) = {}
\* C2, of every step: a removal below the receiver removes exactly that sprite.
C2_RemovalExact == [][C2_RemovalStep]_vars

\* A grandchild (or deeper) was removed through an ancestor that keeps a child
\* with a sibling left in it.
C2_Witness ==
    /\ last.op = "remove_child"
    /\ last.at = "deep"
    /\ ret = Some(last.arg[1])
    /\ \E c \in ChildSet(sprites, last.recv) : Len(sprites[c].children) >= 1

\* C3: remove_child, child and child_mut with an id that is nowhere below the
\* receiver return None, raise no fault and leave every sprite as it was.
C3_AbsentStep ==
    (last'.op \in {"remove_child", "child", "child_mut"}
        /\ last'.arg[1] \notin Descendants(sprites, last'.recv))
    => /\ ret' = None
       /\ fault' = "none"
       /\ sprites' = sprites
\* C3, of every step: a lookup or removal of an absent id is None and changes nothing.
C3_AbsentIsNone == [][C3_AbsentStep]_vars

\* An absent id was asked of a sprite that has children and grandchildren.
C3_Witness ==
    /\ last.op = "remove_child"
    /\ last.at = "absent"
    /\ ret = None
    /\ \E c \in ChildSet(sprites, last.recv) : Len(sprites[c].children) >= 1

\* C19: for every sprite n and every sprite d below it at any depth,
\* n.child(d.id()) and n.child_mut(d.id()) both return d, the sprite whose
\* id() is the id asked for, with no fault and no sprite changed, whether d
\* is in n's own index or deeper.
C19_LookupFindsDescendant ==
    \A n \in Ids :
        \A d \in Descendants(sprites, n) :
            /\ child(sprites, n, sprites[d].id) = Outcome(sprites, Some(d), "none")
            /\ child_mut(sprites, n, sprites[d].id) = Outcome(sprites, Some(d), "none")
            /\ sprites[Unwrap(child(sprites, n, sprites[d].id).ret)].id = sprites[d].id

\* child_mut found a grandchild that hangs under the receiver's second child,
\* past a first child that has no children of its own.
C19_Witness ==
    /\ last.op = "child_mut"
    /\ last.at = "deep"
    /\ ret = Some(last.arg[1])
    /\ Len(sprites[last.recv].children) >= 2
    /\ sprites[VecGet(sprites[last.recv].children, 0)].children = <<>>
    /\ last.arg[1] \in ChildSet(sprites, VecGet(sprites[last.recv].children, 1))

\* ------------------------------------------------------------ claims: animation
\* The clip a name is registered under on sprite s.
Clip(s, name) == s.frame_sets[name]

\* C4: on a playing clip with repeat = true, every update on which the frame
\* time expires moves frame_idx on by one, and from the last index back to 0.
C4_AdvanceStep ==
    \A n \in AnimIds :
        LET s == sprites[n]
        IN ( /\ last'.op = "update"
             /\ last'.recv = n
             /\ Expires(s, last'.arg[1])
             /\ Unwrap(s.frames).repeat
             /\ s.frame_idx < Len(Unwrap(s.frames).source) )
           => sprites'[n].frame_idx =
                  IF s.frame_idx = Len(Unwrap(s.frames).source) - 1
                  THEN 0 ELSE s.frame_idx + 1
\* C4, of every step: an expiry on a repeating clip advances or wraps frame_idx.
C4_RepeatAdvances == [][C4_AdvanceStep]_vars

\* C5: a non-repeating clip of n frames played from frame 0 with no followup
\* stands, after k frame-time expiries, at index k while k < n - 1 and at the
\* last index n - 1 from then on.
C5_FreezesAtLast ==
    \A n \in AnimIds :
        ( /\ IsSome(played[n])
          /\ Unwrap(played[n]).registered
          /\ Unwrap(played[n]).followup = None
          /\ Unwrap(played[n]).frame_idx = 0
          /\ ~Clip(sprites[n], Unwrap(played[n]).name).repeat
          /\ Len(Clip(sprites[n], Unwrap(played[n]).name).source) >= 1 )
        => sprites[n].frame_idx =
               Min(expired[n],
                   Len(Clip(sprites[n], Unwrap(played[n]).name).source) - 1)

\* C6: after play(A, Some(B)) from frame 0, A a registered non-repeating clip
\* of 2 frames and B another registered clip, once two frame times have expired B is the
\* active clip and the followup field is empty; right after the second
\* expiry frame_idx is 0.
C6_FollowupChain ==
    \A n \in AnimIds :
        ( /\ IsSome(played[n])
          /\ Unwrap(played[n]).registered
          /\ IsSome(Unwrap(played[n]).followup)
          /\ Unwrap(played[n]).followup # Some(Unwrap(played[n]).name)
          /\ Unwrap(played[n]).frame_idx = 0
          /\ ~Clip(sprites[n], Unwrap(played[n]).name).repeat
          /\ Len(Clip(sprites[n], Unwrap(played[n]).name).source) = 2
          /\ expired[n] >= 2 )
        => /\ sprites[n].frames =
                  Some(Clip(sprites[n], Unwrap(Unwrap(played[n]).followup)))
           /\ sprites[n].frames_followup = None
           /\ (expired[n] = 2 => sprites[n].frame_idx = 0)

\* C7: no call of the public operations panics.
C7_NoFault == fault = "none"

\* C11: play(name, followup) with a name the sprite's frame_sets does not
\* hold changes nothing of the sprite but frames_followup, which becomes
\* followup (None included): frames, frame_idx, frame_delta and frame_sets
\* are as before, and no fault is raised.
C11_UnknownStep ==
    \A n \in AnimIds :
        ( /\ last'.op = "play"
          /\ last'.recv = n
          /\ ~ContainsKey(sprites[n].frame_sets, last'.arg[1]) )
        => /\ sprites'[n] = [sprites[n] EXCEPT !.frames_followup = last'.arg[2]]
           /\ sprites'[n].frames = sprites[n].frames
           /\ sprites'[n].frame_idx = sprites[n].frame_idx
           /\ sprites'[n].frame_delta = sprites[n].frame_delta
           /\ sprites'[n].frame_sets = sprites[n].frame_sets
           /\ fault' = "none"
\* C11, of every step: playing an unregistered name only stores the followup.
C11_UnknownPlayKeepsState == [][C11_UnknownStep]_vars

\* The unregistered name "X" was played, with a followup, on a sprite that is
\* part-way through a frame of a registered clip.
C11_Witness ==
    /\ last.op = "play"
    /\ last.arg[1] = "X"
    /\ last.arg[2] = Some("B")
    /\ IsSome(sprites[last.recv].frames)
    /\ sprites[last.recv].frame_delta > 0
    /\ sprites[last.recv].frames_followup = Some("B")

\* C12: frame_sets is first-write-wins and grow-only: no step of any
\* operation removes a registered name or alters its entry (repeat,
\* frame_time, source), and add_frameset or add_frameset_horizontal with a
\* registered name leaves frame_sets as it was.
C12_RegistryStep ==
    \A n \in AnimIds :
        /\ \A name \in DOMAIN sprites[n].frame_sets :
               /\ ContainsKey(sprites'[n].frame_sets, name)
               /\ sprites'[n].frame_sets[name] = sprites[n].frame_sets[name]
        /\ ( /\ last'.op \in {"add_frameset", "add_frameset_horizontal"}
             /\ last'.recv = n
             /\ ContainsKey(sprites[n].frame_sets, last'.arg[1]) )
           => sprites'[n].frame_sets = sprites[n].frame_sets
\* C12, of every step: registered entries stay, and stay as first written.
C12_FirstWriteWins == [][C12_RegistryStep]_vars

\* add_frameset was called with a name registered before it, by
\* add_frameset_horizontal with 3 frames (add_frameset is handed lists of 0
\* or 2 frames), while a second name is registered too.
C12_Witness ==
    /\ last.op = "add_frameset"
    /\ ContainsKey(sprites[last.recv].frame_sets, last.arg[1])
    /\ Len(sprites[last.recv].frame_sets[last.arg[1]].source) = 3
    /\ Cardinality(DOMAIN sprites[last.recv].frame_sets) = 2

\* C13: update(dt) on a sprite with no active frame set changes no field of
\* it (it stays without one, frame_idx and frame_delta included) and raises
\* no fault; and a draw or draw_tinted of such a sprite with no src_rect
\* submits a quad of the full texture's width and height with no source
\* rectangle of its own.
C13_IdleStep ==
    \A n \in AnimIds :
        /\ ( /\ last'.op = "update"
             /\ last'.recv = n
             /\ ~IsSome(sprites[n].frames) )
           => /\ sprites'[n] = sprites[n]
              /\ ~IsSome(sprites'[n].frames)
              /\ fault' = "none"
        /\ ( /\ last'.op \in {"draw", "draw_tinted"}
             /\ last'.recv = n
             /\ ~IsSome(sprites[n].frames)
             /\ ~IsSome(sprites[n].src_rect) )
           => /\ fault' = "none"
              /\ Len(b') = 1
              /\ b'[1].rect[3] = FullTexture[3]
              /\ b'[1].rect[4] = FullTexture[4]
              /\ b'[1].src_rect = None
\* C13, of every step: an update of an idle sprite is a no-op, and an idle
\* sprite with no src_rect is drawn with the full texture extent.
C13_IdleUpdateIsNoOp == [][C13_IdleStep]_vars

\* An update longer than every frame time was called on a sprite that has a
\* clip registered and a followup stored, but no active frame set.
C13_Witness ==
    /\ last.op = "update"
    /\ \A frame_time \in FrameTimes : last.arg[1] > frame_time
    /\ ~IsSome(sprites[last.recv].frames)
    /\ sprites[last.recv].frames_followup = Some("A")
    /\ ContainsKey(sprites[last.recv].frame_sets, "A")
    /\ sprites[last.recv].frame_delta = 0

\* baseRect moved right by i times its own width.
Tile(baseRect, i) ==
    <<baseRect[1] + i * baseRect[3], baseRect[2], baseRect[3], baseRect[4]>>

\* C14: add_frameset_horizontal(name, repeat, frame_time, baseRect, count)
\* with a name not yet registered registers exactly count frames, frame i
\* being baseRect moved right by i times its width (frame 0 baseRect itself).
C14_TileStep ==
    \A n \in AnimIds :
        ( /\ last'.op = "add_frameset_horizontal"
          /\ last'.recv = n
          /\ ~ContainsKey(sprites[n].frame_sets, last'.arg[1]) )
        => /\ ContainsKey(sprites'[n].frame_sets, last'.arg[1])
           /\ LET source == sprites'[n].frame_sets[last'.arg[1]].source
              IN /\ Len(source) = last'.arg[3]
                 /\ \A i \in 0..(Len(source) - 1) :
                        VecGet(source, i) = Tile(last'.arg[2], i)
\* C14, of every step: the frames registered tile baseRect rightward.
C14_TilesBaseRect == [][C14_TileStep]_vars

\* The part of the texture the renderer reads for quad q: the quad's source
\* rectangle, and the whole texture when it has none.
Sampled(q) == IF IsSome(q.src_rect) THEN Unwrap(q.src_rect) ELSE FullTexture

\* C15: the quad draw and draw_tinted submit for the sprite reads the
\* texture at the current animation frame frames[frame_idx] while a frame
\* set is active, else at src_rect if one is set, else at the full texture.
C15_SourceIsFrame ==
    ( /\ last.op \in {"draw", "draw_tinted"}
      /\ fault = "none"
      /\ Len(b) >= 1 )
    => LET s == sprites[last.recv]
       IN Sampled(b[1]) =
              IF IsSome(s.frames) THEN VecGet(Unwrap(s.frames).source, s.frame_idx)
              ELSE IF IsSome(s.src_rect) THEN Unwrap(s.src_rect)
              ELSE FullTexture

\* C16: play(name, followup) with a registered name makes that clip the
\* active frame set and stores followup, and changes nothing else: frame_idx
\* and frame_delta are as before the call.  A step that changes the active
\* frame set is such a play, or the followup path of update, which leaves
\* frame_idx at 0.
C16_PlayStep ==
    \A n \in AnimIds :
        LET s == sprites[n]
        IN /\ ( /\ last'.op = "play"
                /\ last'.recv = n
                /\ ContainsKey(s.frame_sets, last'.arg[1]) )
              => /\ sprites'[n] =
                        [s EXCEPT !.frames = Some(Clip(s, last'.arg[1])),
                                  !.frames_followup = last'.arg[2]]
                 /\ sprites'[n].frame_idx = s.frame_idx
                 /\ sprites'[n].frame_delta = s.frame_delta
           /\ sprites'[n].frames # s.frames
              => \/ /\ last'.op = "play"
                    /\ sprites'[n].frame_idx = s.frame_idx
                    /\ sprites'[n].frame_delta = s.frame_delta
                 \/ /\ last'.op = "update"
                    /\ IsSome(s.frames_followup)
                    /\ sprites'[n].frames =
                           Some(Clip(s, Unwrap(s.frames_followup)))
                    /\ sprites'[n].frame_idx = 0
\* C16, of every step: play switches the clip and the followup and keeps the
\* position; only update's followup path switches the clip otherwise.
C16_PlayKeepsPosition == [][C16_PlayStep]_vars

\* A registered clip was played, with a followup, part-way through a frame:
\* the time elapsed is still there.
C16_Witness ==
    /\ last.op = "play"
    /\ ContainsKey(sprites[last.recv].frame_sets, last.arg[1])
    /\ sprites[last.recv].frames =
           Some(Clip(sprites[last.recv], last.arg[1]))
    /\ IsSome(last.arg[2])
    /\ sprites[last.recv].frames_followup = last.arg[2]
    /\ sprites[last.recv].frame_delta > 0

\* C17: one update(dt) on a sprite playing a clip makes at most one frame
\* transition whatever dt is: when frame_delta + dt exceeds the clip's
\* frame_time, frame_delta becomes 0 and frame_idx moves one step (on by
\* one before the last frame; at the last frame back to 0, or, where C5 has
\* the clip freeze, not at all); otherwise frame_delta grows by dt and
\* frame_idx and the active clip stay.
C17_UpdateStep ==
    \A n \in AnimIds :
        LET s == sprites[n]
            dt == last'.arg[1]
        IN ( /\ last'.op = "update"
             /\ last'.recv = n
             /\ IsSome(s.frames)
             /\ s.frame_idx < Len(Unwrap(s.frames).source) )
           => IF Expires(s, dt)
              THEN /\ sprites'[n].frame_delta = 0
                   /\ IF s.frame_idx < Len(Unwrap(s.frames).source) - 1
                      THEN sprites'[n].frame_idx = s.frame_idx + 1
                      ELSE sprites'[n].frame_idx \in {0, s.frame_idx}
              ELSE /\ sprites'[n].frame_delta = s.frame_delta + dt
                   /\ sprites'[n].frame_idx = s.frame_idx
                   /\ sprites'[n].frames = s.frames
\* C17, of every step: an update makes one frame transition at most, and
\* exactly one when the frame time has expired before the last frame.
C17_OneTransition == [][C17_UpdateStep]_vars

\* C18: when the frame time expires on the last frame of an active clip with
\* repeat = true while a registered followup is stored, the followup clip
\* becomes the active clip, frame_idx is 0 and the followup field is None.
C18_ChainStep ==
    \A n \in AnimIds :
        LET s == sprites[n]
        IN ( /\ last'.op = "update"
             /\ last'.recv = n
             /\ Expires(s, last'.arg[1])
             /\ Unwrap(s.frames).repeat
             /\ Len(Unwrap(s.frames).source) >= 1
             /\ s.frame_idx = Len(Unwrap(s.frames).source) - 1
             /\ IsSome(s.frames_followup)
             /\ ContainsKey(s.frame_sets, Unwrap(s.frames_followup)) )
           => /\ sprites'[n].frames = Some(Clip(s, Unwrap(s.frames_followup)))
              /\ sprites'[n].frame_idx = 0
              /\ sprites'[n].frames_followup = None
              /\ fault' = "none"
\* C18, of every step: repeat does not keep a followup from taking over.
C18_RepeatDoesNotSuppress == [][C18_ChainStep]_vars

\* A frame time expired on the last frame of a repeating clip with a followup
\* stored, and the clip active now is another one, not repeating, at frame 0
\* with no followup left.
C18_Witness ==
    \E n \in AnimIds :
        /\ last.op = "update"
        /\ last.recv = n
        /\ last.at = "repeat and followup"
        /\ IsSome(sprites[n].frames)
        /\ ~Unwrap(sprites[n].frames).repeat
        /\ sprites[n].frames_followup = None
        /\ sprites[n].frame_idx = 0

\* Every frame set registered on sprite s has at least one frame.
NoEmptyClip(s) ==
    \A name \in DOMAIN s.frame_sets : Len(s.frame_sets[name].source) >= 1

\* C20: while every frame set registered on a sprite has at least one frame,
\* a sprite with an active frame set has frame_idx below that set's number
\* of frames, whatever add_frameset, play and update calls came before, so
\* draw, draw_tinted and bounding_box index frames[frame_idx] in bounds and
\* raise no fault.
C20_FrameIdxInBounds ==
    \A n \in AnimIds :
        NoEmptyClip(sprites[n])
        => /\ IsSome(sprites[n].frames)
              => /\ sprites[n].frame_idx >= 0
                 /\ sprites[n].frame_idx < Len(Unwrap(sprites[n].frames).source)
           /\ ~FrameOutOfBounds(sprites[n])
           /\ fault = "none"

\* A draw, draw_tinted or bounding_box came through on a sprite that plays a
\* one-frame clip while a clip of three frames is registered too.
C20_Witness ==
    \E n \in AnimIds :
        /\ last.op \in {"draw", "draw_tinted", "bounding_box"}
        /\ last.recv = n
        /\ fault = "none"
        /\ NoEmptyClip(sprites[n])
        /\ IsSome(sprites[n].frames)
        /\ Len(Unwrap(sprites[n].frames).source) = 1
        /\ \E name \in DOMAIN sprites[n].frame_sets :
               Len(sprites[n].frame_sets[name].source) = 3

\* ------------------------------------------------------------ claims: draw
\* Sprite m is drawn by a draw called on sprite root: it is root or below it,
\* and it and every sprite between it and root are visible.
OnPath(S, root, m) ==
    {x \in Ids : /\ (x = m \/ m \in Descendants(S, x))
                 /\ (x = root \/ x \in Descendants(S, root))}
Shown(S, root, m) ==
    /\ (m = root \/ m \in Descendants(S, root))
    /\ \A x \in OnPath(S, root, m) : S[x].visible
IsDraw == last.op \in {"draw", "draw_tinted"}

\* C8: draw and draw_tinted submit no quad for a sprite that is invisible or
\* has an invisible sprite between it and the one draw was called on.
C8_HiddenSubtree ==
    IsDraw => \A k \in 1..Len(b) : Shown(sprites, last.recv, b[k].sprite)

\* A draw on a visible sprite whose invisible child has a visible child.
C8_Witness ==
    /\ IsDraw
    /\ Len(b) >= 1
    /\ \E c \in ChildSet(sprites, last.recv) :
           /\ ~sprites[c].visible
           /\ \E g \in ChildSet(sprites, c) : sprites[g].visible

\* The latest draw again, on pool S.
Redraw(S) ==
    IF last.op = "draw" THEN draw(S, last.recv, last.arg[1])
    ELSE draw_tinted(S, last.recv, last.arg[1], last.arg[2])
\* Quads q and r agree on everything but the transform.
SameButTransform(q, r) == [q EXCEPT !.transform = r.transform] = r
\* Drawing pool S gives b again, but for the transform of sprite f's quad.
OnlyOwnQuadMoves(S, f) ==
    /\ Len(Redraw(S).quads) = Len(b)
    /\ \A k \in 1..Len(b) :
           IF b[k].sprite = f
           THEN SameButTransform(Redraw(S).quads[k], b[k])
           ELSE Redraw(S).quads[k] = b[k]
\* Pools S and T differ in no sprite but f, and there in nothing but field.
OnlyFieldDiffers(S, T, f, field) ==
    /\ \A m \in Ids \ {f} : S[m] = T[m]
    /\ [S[f] EXCEPT ![field] = T[f][field]] = T[f]

\* C9: with flip_x (or flip_y) of a sprite toggled, a draw submits the same
\* quads but for the transform of that sprite's own quad: every child quad
\* has the transform it had, and no other field of any sprite has changed.
C9_FlipIsLocal ==
    IsDraw =>
        \A f \in DrawnIds :
            LET X == [sprites EXCEPT ![f] = set_flip_x(@, ~@.flip_x)]
                Y == [sprites EXCEPT ![f] = set_flip_y(@, ~@.flip_y)]
            IN /\ OnlyOwnQuadMoves(X, f)
               /\ OnlyOwnQuadMoves(Y, f)
               /\ OnlyFieldDiffers(X, sprites, f, "flip_x")
               /\ OnlyFieldDiffers(Y, sprites, f, "flip_y")

\* A draw on a flipped sprite submitted its quad and a child's.
C9_Witness ==
    /\ IsDraw
    /\ sprites[last.recv].flip_x
    /\ Len(b) >= 2
    /\ b[1].transform # Transformed(sprites[last.recv], last.arg[1])

\* C10: draw_tinted submits exactly one quad for the sprite and for each
\* descendant shown, each with the override c as its RGB and the submitting
\* sprite's own opacity as its alpha.
C10_TintOverrides ==
    last.op = "draw_tinted" =>
        /\ \A k \in 1..Len(b) :
               b[k].color = << last.arg[2][1], last.arg[2][2], last.arg[2][3],
                               sprites[b[k].sprite].opacity >>
        /\ {b[k].sprite : k \in 1..Len(b)} =
               {m \in Ids : Shown(sprites, last.recv, m)}
        /\ Len(b) = Cardinality({m \in Ids : Shown(sprites, last.recv, m)})

\* A tinted draw reached a grandchild that has a color of its own.
C10_Witness ==
    /\ last.op = "draw_tinted"
    /\ \E k \in 1..Len(b) :
           /\ sprites[b[k].sprite].color # White
           /\ \E c \in ChildSet(sprites, last.recv) :
                  b[k].sprite \in ChildSet(sprites, c)

====
